---------------------------- MODULE Spec2Model ----------------------------
(***************************************************************************)
(* Model of dashboard.py, the Streamlit client-retention dashboard.        *)
(*                                                                         *)
(* The script is linear: it reads prepared.csv, computes KPIs and grouped  *)
(* return rates, narrows the table by the selected category, bins          *)
(* Purchase_Value into segments and looks a typed customer ID up for the   *)
(* classifier.  Streamlit runs the script from the top on every user       *)
(* interaction, so one run is a sequence of steps (pc) and a finished or   *)
(* failed run is followed by a rerun.                                      *)
(*                                                                         *)
(* Text is modelled as a sequence of tokens, so that startswith, replace   *)
(* and + act on column names the way str does; a cell of the table is a    *)
(* tagged value (int, str, date or nan), so that pandas' comparisons       *)
(* between values of different types are false and never undefined.        *)
(***************************************************************************)
EXTENDS Integers, Sequences, FiniteSets, TLC

(***************************************************************************)
(* Bounds of the model.                                                    *)
(***************************************************************************)
MaxRows == 2

(***************************************************************************)
(* Text and cell values.                                                   *)
(***************************************************************************)
Prefix == "Category_"

Text(s) == <<s>>

All == Text("All")

IntV(n) == [t |-> "int", n |-> n, s |-> ""]
StrV(s) == [t |-> "str", n |-> 0, s |-> s]
DateV(s) == [t |-> "date", n |-> 0, s |-> s]
NaN == [t |-> "nan", n |-> 0, s |-> ""]

IsNa(v) == v.t = "nan"

\* pandas ==: a missing value equals nothing, values of different types differ
Eq(a, b) == ~IsNa(a) /\ ~IsNa(b) /\ a = b

\* str.startswith(prefix) on a column name
StartsWith(c, p) == Len(c) >= 1 /\ c[1] = p

\* str.replace(old, ""): every occurrence of old is removed, not only a leading one
Replace(c, old) == SelectSeq(c, LAMBDA tok : tok # old)

(***************************************************************************)
(* Sequence helpers.                                                       *)
(***************************************************************************)
Range(s) == {s[i] : i \in DOMAIN s}

RECURSIVE SumSeq(_)
SumSeq(s) == IF s = <<>> THEN 0 ELSE Head(s) + SumSeq(Tail(s))

\* the positions at which a boolean mask holds, ascending, from position k on
RECURSIVE Positions(_, _)
Positions(mask, k) ==
    IF k > Len(mask) THEN <<>>
    ELSE (IF mask[k] THEN <<k>> ELSE <<>>) \o Positions(mask, k + 1)

(***************************************************************************)
(* The columns of prepared.csv.                                            *)
(***************************************************************************)
CustomerId == Text("Customer_ID")
DateCol == Text("Date")
PurchaseValue == Text("Purchase_Value")
EmailEngagement == Text("Email_Engagement")
DiscountUsed == Text("Discount_Used")
ReturnVisit == Text("Return_Visit")
SegmentCol == Text("Segment")

BaseFeatures ==
    << PurchaseValue, EmailEngagement, DiscountUsed,
       Text("frequency"), Text("total_spent"), Text("avg_spent"),
       Text("recency_days"), Text("purchase_month"), Text("purchase_dayofweek") >>

BaseCols == <<CustomerId, DateCol, ReturnVisit>> \o BaseFeatures

(***************************************************************************)
(* pd.read_csv: a cell in the NA list is missing; a column whose present   *)
(* cells are all numerals is numeric, the Date column is parsed, any other *)
(* column holds strings.                                                   *)
(***************************************************************************)
NaValues ==
    { "", "#N/A", "#N/A N/A", "#NA", "-1.#IND", "-1.#QNAN", "-NaN", "-nan",
      "1.#IND", "1.#QNAN", "<NA>", "N/A", "NA", "NULL", "NaN", "None", "n/a",
      "nan", "null" }

IntOf ==
    [x \in {"-1", "0", "1", "7", "80", "81", "100", "150", "300", "301"} |->
        CASE x = "-1" -> 0 - 1
          [] x = "0" -> 0
          [] x = "1" -> 1
          [] x = "7" -> 7
          [] x = "80" -> 80
          [] x = "81" -> 81
          [] x = "100" -> 100
          [] x = "150" -> 150
          [] x = "300" -> 300
          [] x = "301" -> 301]

IsNumeral(x) == x \in DOMAIN IntOf

ParseCell(col, numeric, x) ==
    IF x \in NaValues THEN NaN
    ELSE IF col = DateCol THEN DateV(x)
    ELSE IF numeric THEN IntV(IntOf[x])
    ELSE StrV(x)

ReadCsv(file) ==
    LET present(c) == {file.lines[i][c] : i \in DOMAIN file.lines} \ NaValues
        numeric(c) == \A x \in present(c) : IsNumeral(x)
    IN  [columns |-> file.header,
         index |-> [i \in DOMAIN file.lines |-> i - 1],
         data |-> [i \in DOMAIN file.lines |->
                     [c \in Range(file.header) |->
                        ParseCell(c, numeric(c), file.lines[i][c])]]]

EmptyFrame == [columns |-> <<>>, index |-> <<>>, data |-> <<>>]

(***************************************************************************)
(* DataFrame operations used by the script.                                *)
(***************************************************************************)
\* frame[name] as the sequence of its values; the caller checks the column exists
Column(frame, name) == [i \in DOMAIN frame.data |-> frame.data[i][name]]

HasColumn(frame, name) == name \in Range(frame.columns)

\* frame[mask]: the rows at which the boolean mask holds, in order, labels kept
Where(frame, mask) ==
    LET keep == Positions(mask, 1)
    IN  [columns |-> frame.columns,
         index |-> [k \in DOMAIN keep |-> frame.index[keep[k]]],
         data |-> [k \in DOMAIN keep |-> frame.data[keep[k]]]]

\* series == value, as a boolean mask
EqMask(vals, v) == [i \in DOMAIN vals |-> Eq(vals[i], v)]

\* the slice iloc[-1:] in place of iloc[0:1]: the last row
IlocLast(frame) ==
    [columns |-> frame.columns,
     index |-> SubSeq(frame.index, Len(frame.index), Len(frame.index)),
     data |-> SubSeq(frame.data, Len(frame.data), Len(frame.data))]

\* frame.iloc[0:1]: the first row if there is one, as a frame
Iloc01(frame) ==
    [columns |-> frame.columns,
     index |-> SubSeq(frame.index, 1, IF Len(frame.index) >= 1 THEN 1 ELSE 0),
     data |-> SubSeq(frame.data, 1, IF Len(frame.data) >= 1 THEN 1 ELSE 0)]

\* frame[cols]: the named columns, in the order asked for
Project(frame, cols) ==
    [columns |-> cols,
     index |-> frame.index,
     data |-> [i \in DOMAIN frame.data |-> [c \in Range(cols) |-> frame.data[i][c]]]]

\* frame[name] = vals: an existing column is overwritten in place, a new one is appended
SetColumn(frame, name, vals) ==
    [columns |-> IF HasColumn(frame, name) THEN frame.columns
                 ELSE Append(frame.columns, name),
     index |-> frame.index,
     data |-> [i \in DOMAIN frame.data |->
                 [c \in Range(frame.columns) \cup {name} |->
                    IF c = name THEN vals[i] ELSE frame.data[i][c]]]]

(***************************************************************************)
(* Means.  A mean is kept as the exact fraction num/den; den = 0 is the    *)
(* NaN pandas returns for an empty series.                                 *)
(***************************************************************************)
Frac(n, d) == [num |-> n, den |-> d]

\* Series.mean(): missing values are skipped
Mean(vals) ==
    LET present == SelectSeq(vals, LAMBDA v : v.t = "int")
    IN  Frac(SumSeq([i \in DOMAIN present |-> present[i].n]), Len(present))

\* mean of a boolean mask: the fraction of True
MeanMask(mask) == Frac(Len(Positions(mask, 1)), Len(mask))

IsNaN(m) == m.den = 0

Times(m, k) == Frac(m.num * k, m.den)

Less(a, b) == a.num * b.den < b.num * a.den

Same(a, b) == a.num * b.den = b.num * a.den

\* f"{x:.1f}" and f"{x:.2f}": x rounded to the given number of decimals
\* (as an integer count of the last decimal), or "nan"
RoundDiv(p, q) ==
    LET fl == p \div q
        rem == p - fl * q
    IN  IF 2 * rem < q THEN fl
        ELSE IF 2 * rem > q THEN fl + 1
        ELSE IF fl % 2 = 0 THEN fl ELSE fl + 1

Format(m, scale) ==
    IF IsNaN(m) THEN [shown |-> TRUE, nan |-> TRUE, digits |-> 0]
    ELSE [shown |-> TRUE, nan |-> FALSE, digits |-> RoundDiv(m.num * scale, m.den)]

\* nothing written to the page
NoText == [shown |-> FALSE, nan |-> FALSE, digits |-> 0]

NoMean == Frac(0, 0)
(***************************************************************************)
(* The script's steps as pure functions of the table.                      *)
(***************************************************************************)
\* category_cols = [c for c in df.columns if c.startswith("Category_")]
CategoryCols(frame) == SelectSeq(frame.columns, LAMBDA c : StartsWith(c, Prefix))

\* categories = [c.replace("Category_", "") for c in category_cols]
Categories(cols) == [i \in DOMAIN cols |-> Replace(cols[i], Prefix)]

\* ["All"] + categories, the options of the selectbox
Options(cats) == <<All>> \o cats

\* "Category_" + selected_cat
ColName(selected) == <<Prefix>> \o selected

\* filtered_df: a copy of the table, narrowed unless "All" is selected
FilteredDf(frame, selected) ==
    IF selected # All
        THEN Where(frame, EqMask(Column(frame, ColName(selected)), IntV(1)))
        ELSE frame

\* the filter applied to the table itself, with no df.copy()
DfNarrowedInPlace(frame, selected) == FilteredDf(frame, selected)

\* the table itself after the filter step: the script narrows a copy
DfAfterFilter(frame, selected) == frame

\* dict item assignment: a key already present keeps its place and takes the new value
RECURSIVE DictSet(_, _, _)
DictSet(d, key, val) ==
    IF d = <<>> THEN << [key |-> key, val |-> val] >>
    ELSE IF Head(d).key = key THEN << [key |-> key, val |-> val] >> \o Tail(d)
    ELSE << Head(d) >> \o DictSet(Tail(d), key, val)

\* df[df[col] == 1]["Return_Visit"].mean()
CategoryRate(frame, col) ==
    Mean(Column(Where(frame, EqMask(Column(frame, col), IntV(1))), ReturnVisit))

\* the dict comprehension over zip(categories, category_cols), from pair k on
RECURSIVE CatReturnFrom(_, _, _, _, _)
CatReturnFrom(frame, cats, cols, k, d) ==
    IF k > Len(cats) \/ k > Len(cols) THEN d
    ELSE CatReturnFrom(frame, cats, cols, k + 1,
                       DictSet(d, cats[k], CategoryRate(frame, cols[k])))

CatReturn(frame, cats, cols) == CatReturnFrom(frame, cats, cols, 1, <<>>)

\* pd.DataFrame({"Category": categories, "Return_Rate": cat_return.values()})
CatDf(cats, d) ==
    [i \in DOMAIN cats |-> [Category |-> cats[i], Return_Rate |-> d[i].val]]

\* df.groupby(col): one group per value present, rows with a missing key dropped
GroupBy(frame, col) ==
    LET vals == Column(frame, col)
        keys == {vals[i] : i \in DOMAIN vals} \ {NaN}
    IN  {[key |-> k, rows |-> {i \in DOMAIN vals : vals[i] = k}] : k \in keys}

GroupMean(frame, rows, col) ==
    Mean(Column(Where(frame, [i \in DOMAIN frame.data |-> i \in rows]), col))

\* df.groupby("Email_Engagement")["Return_Visit"].mean().reset_index()
EmailDf(frame) ==
    {[Email_Engagement |-> g.key, Return_Visit |-> GroupMean(frame, g.rows, ReturnVisit)] :
        g \in GroupBy(frame, EmailEngagement)}

\* the row orders sort_values("Return_Rate") can return: rates ascending (or
\* descending), missing rates last in their original order.  The default sort
\* kind is quicksort, which is not stable: rows of equal rate come in any order.
SortValues(frame, ascending) ==
    LET n == Len(frame)
        nans == Positions([i \in 1..n |-> IsNaN(frame[i].Return_Rate)], 1)
        m == n - Len(nans)
        before(a, b) == IF ascending THEN ~Less(b.Return_Rate, a.Return_Rate)
                        ELSE ~Less(a.Return_Rate, b.Return_Rate)
    IN  {p \in [1..n -> 1..n] :
            /\ \A i, j \in 1..n : i # j => p[i] # p[j]
            /\ \A i \in 1..m : ~IsNaN(frame[p[i]].Return_Rate)
            /\ \A i \in 1..n : i > m => p[i] = nans[i - m]
            /\ \A i, j \in 1..m : i < j => before(frame[p[i]], frame[p[j]])}

\* pd.cut(values, bins, labels): bin k is (bins[k], bins[k+1]], closed on the
\* right; a value in no bin, or missing, gets no label
bins == <<0, 80, 150, 300>>
labels == <<"Low", "Medium", "High">>

\* pd.cut(..., right=False): bin k is [bins[k], bins[k+1])
CutValueLeftClosed(v) ==
    IF v.t # "int" THEN NaN
    ELSE LET hit == {k \in DOMAIN labels : bins[k] <= v.n /\ v.n < bins[k + 1]}
         IN  IF hit = {} THEN NaN ELSE StrV(labels[CHOOSE k \in hit : TRUE])

CutValue(v) ==
    IF v.t # "int" THEN NaN
    ELSE LET hit == {k \in DOMAIN labels : bins[k] < v.n /\ v.n <= bins[k + 1]}
         IN  IF hit = {} THEN NaN ELSE StrV(labels[CHOOSE k \in hit : TRUE])

Cut(vals) == [i \in DOMAIN vals |-> CutValue(vals[i])]

\* df["Segment"] = pd.cut(df["Purchase_Value"], ...)
AssignSegment(frame) == SetColumn(frame, SegmentCol, Cut(Column(frame, PurchaseValue)))

\* df.groupby("Segment")["Return_Visit"].mean(): Segment is categorical, so
\* every label has a group, with a NaN mean when no row carries it
SegDf(frame) ==
    [k \in DOMAIN labels |->
        [Segment |-> labels[k],
         Return_Visit |->
            Mean(Column(Where(frame, EqMask(Column(frame, SegmentCol), StrV(labels[k]))),
                        ReturnVisit))]]

\* the guard without its membership test
FoundAnyText(frame, typed) == typed # ""

\* cust_id and cust_id in df["Customer_ID"].values
Found(frame, typed) ==
    /\ typed # ""
    /\ \E i \in DOMAIN frame.data : Eq(frame.data[i][CustomerId], StrV(typed))

\* df[df["Customer_ID"] == cust_id].iloc[0:1]
LookupRow(frame, typed) == Iloc01(Where(frame, EqMask(Column(frame, CustomerId), StrV(typed))))

\* feature_cols
FeatureCols(cols) == BaseFeatures \o cols
(***************************************************************************)
(* The state of one run of the script.                                     *)
(***************************************************************************)
VARIABLES
    csv,              \* prepared.csv: the header and the text of every cell
    pc,               \* the statement the run has reached
    df,
    category_cols,
    categories,
    kpis,             \* the four metrics as computed and as written
    selected_cat,
    filtered_df,
    filtered_rate,    \* the text written under "Return Rate by Selected Category"
    cat_return,
    cat_df,
    email_df,
    top_category,
    lowest_category,
    seg,
    cust_id,
    inputs,           \* the frame handed to model.predict_proba
    predicted,        \* predict_proba was called in this run
    pred,             \* the probability written by st.success
    error             \* the exception that ended the run, "" if none

vars ==
    << csv, pc, df, category_cols, categories, kpis, selected_cat, filtered_df,
       filtered_rate, cat_return, cat_df, email_df, top_category, lowest_category,
       seg, cust_id, inputs, predicted, pred, error >>

NoKpis ==
    [total_customers |-> 0, overall_return_rate |-> NoMean, avg_spend |-> NoMean,
     email_eng_rate |-> NoMean,
     shown |-> <<NoText, NoText, NoText>>]

NoCategory == [Category |-> <<>>, Return_Rate |-> NoMean]

(***************************************************************************)
(* The files the script can be started on.                                 *)
(***************************************************************************)
CA == <<Prefix, "A">>
CB == <<Prefix, "B">>
CCA == <<Prefix, Prefix, "A">>
CAll == <<Prefix, "All">>

\* the texts a cell of each column can hold: category membership always varies,
\* every other column holds one text unless a family of files widens it
DefaultCells(header) ==
    [c \in Range(header) |->
        IF c = CustomerId THEN {"C1"}
        ELSE IF c = DateCol THEN {"2024-01-05"}
        ELSE IF c = PurchaseValue THEN {"100"}
        ELSE IF c = EmailEngagement THEN {"Clicked"}
        ELSE IF c = DiscountUsed THEN {"0"}
        ELSE IF c = SegmentCol THEN {"VIP"}
        ELSE IF StartsWith(c, Prefix) THEN {"0", "1"}
        ELSE {"1"}]

\* every row over the columns cols, each cell drawn from cells[column]
RECURSIVE RowSet(_, _)
RowSet(cols, cells) ==
    IF cols = <<>> THEN {<<>>}
    ELSE {(Head(cols) :> x) @@ r : x \in cells[Head(cols)], r \in RowSet(Tail(cols), cells)}

\* every file with the given header and at most max lines
Files(header, cells, max) ==
    LET rows == RowSet(header, cells)
    IN  {[header |-> header, lines |-> l] : l \in UNION {[1..n -> rows] : n \in 0..max}}

\* return visits, engagement and category membership vary; the category
\* columns come well-formed, nested, clashing with the sentinel, or not at all
MainFiles(max) ==
    UNION {Files(BaseCols \o c,
                 [DefaultCells(BaseCols \o c) EXCEPT
                     ![ReturnVisit] = {"0", "1"},
                     ![EmailEngagement] = {"Clicked", "Opened", ""}], max) :
           c \in {<<>>, <<CA>>, <<CA, CB>>, <<CCA>>, <<CA, CCA>>, <<CAll, CA>>}}

\* purchase values on and around the bin edges
SegFiles(max) ==
    UNION {Files(BaseCols \o c,
                 [DefaultCells(BaseCols \o c) EXCEPT
                     ![PurchaseValue] = {"-1", "0", "80", "81", "150", "300", "301"}], max) :
           c \in {<<CA>>}}

\* files with and without a Segment column of their own
FrameFiles(max) ==
    UNION {Files(BaseCols \o c,
                 [DefaultCells(BaseCols \o c) EXCEPT
                     ![ReturnVisit] = {"0", "1"},
                     ![PurchaseValue] = {"80", "301"}], max) :
           c \in {<<CA>>, <<CA, SegmentCol>>}}

\* customer IDs, textual and numeric, repeated or not
LookupFiles(max) ==
    UNION {Files(BaseCols \o c,
                 [DefaultCells(BaseCols \o c) EXCEPT ![CustomerId] = {"C1", "7"}], max) :
           c \in {<<CA>>, <<CA, CB>>, <<CB, CA>>, <<CCA, CB>>, <<CA, SegmentCol, CB>>}}

\* what the user can type into the text input
TypedIds == {"", "C1", "7", "C9"}

\* what the loaded classifier can do with a row: return a probability or raise
ModelOutcomes ==
    {[ok |-> TRUE, p |-> Frac(0, 1)], [ok |-> TRUE, p |-> Frac(4, 5)],
     [ok |-> FALSE, p |-> NoMean]}

Start(files) ==
    /\ csv \in files
    /\ pc = "load"
    /\ df = EmptyFrame
    /\ category_cols = <<>>
    /\ categories = <<>>
    /\ kpis = NoKpis
    /\ selected_cat = All
    /\ filtered_df = EmptyFrame
    /\ filtered_rate = NoText
    /\ cat_return = <<>>
    /\ cat_df = <<>>
    /\ email_df = {}
    /\ top_category = NoCategory
    /\ lowest_category = NoCategory
    /\ seg = <<>>
    /\ cust_id = ""
    /\ inputs = EmptyFrame
    /\ predicted = FALSE
    /\ pred = NoText
    /\ error = ""

Init == Start(MainFiles(MaxRows))

InitSeg == Start(SegFiles(MaxRows))

InitLookup == Start(LookupFiles(MaxRows))

InitFrame == Start(FrameFiles(MaxRows))

(***************************************************************************)
(* The steps of a run.                                                     *)
(***************************************************************************)
\* df = pd.read_csv("prepared.csv", parse_dates=["Date"])
Load ==
    /\ pc = "load"
    /\ df' = ReadCsv(csv)
    /\ pc' = "extract"
    /\ UNCHANGED << csv, category_cols, categories, kpis, selected_cat, filtered_df,
                    filtered_rate, cat_return, cat_df, email_df, top_category,
                    lowest_category, seg, cust_id, inputs, predicted, pred, error >>

Extract ==
    /\ pc = "extract"
    /\ category_cols' = CategoryCols(df)
    /\ categories' = Categories(CategoryCols(df))
    /\ pc' = "kpis"
    /\ UNCHANGED << csv, df, kpis, selected_cat, filtered_df, filtered_rate, cat_return,
                    cat_df, email_df, top_category, lowest_category, seg, cust_id,
                    inputs, predicted, pred, error >>

Kpis ==
    /\ pc = "kpis"
    /\ LET overall == Times(Mean(Column(df, ReturnVisit)), 100)
           spend == Mean(Column(df, PurchaseValue))
           clicks == Times(MeanMask(EqMask(Column(df, EmailEngagement), StrV("Clicked"))), 100)
       IN  kpis' = [total_customers |-> Len(df.data),
                    overall_return_rate |-> overall,
                    avg_spend |-> spend,
                    email_eng_rate |-> clicks,
                    shown |-> <<Format(overall, 10), Format(spend, 100), Format(clicks, 10)>>]
    /\ pc' = "filter"
    /\ UNCHANGED << csv, df, category_cols, categories, selected_cat, filtered_df,
                    filtered_rate, cat_return, cat_df, email_df, top_category,
                    lowest_category, seg, cust_id, inputs, predicted, pred, error >>

\* the selectbox returns the text of the chosen option; a missing column is a KeyError
Filter ==
    /\ pc = "filter"
    /\ \E k \in DOMAIN Options(categories) :
        LET selected == Options(categories)[k]
            missing == selected # All /\ ~HasColumn(df, ColName(selected))
            view == FilteredDf(df, selected)
        IN  /\ selected_cat' = selected
            /\ filtered_df' = IF missing THEN df ELSE view
            /\ df' = IF missing THEN df ELSE DfAfterFilter(df, selected)
            /\ filtered_rate' =
                 IF missing THEN NoText
                 ELSE Format(Times(Mean(Column(view, ReturnVisit)), 100), 10)
            /\ error' = IF missing THEN "KeyError" ELSE ""
            /\ pc' = IF missing THEN "error" ELSE "cat_return"
    /\ UNCHANGED << csv, category_cols, categories, kpis, cat_return, cat_df, email_df,
                    top_category, lowest_category, seg, cust_id, inputs, predicted, pred >>

\* columns of unequal length are a ValueError
CatReturnStep ==
    /\ pc = "cat_return"
    /\ LET d == CatReturn(df, categories, category_cols)
           ragged == Len(d) # Len(categories)
       IN  /\ cat_return' = d
           /\ cat_df' = IF ragged THEN <<>> ELSE CatDf(categories, d)
           /\ error' = IF ragged THEN "ValueError" ELSE ""
           /\ pc' = IF ragged THEN "error" ELSE "email"
    /\ UNCHANGED << csv, df, category_cols, categories, kpis, selected_cat, filtered_df,
                    filtered_rate, email_df, top_category, lowest_category, seg, cust_id,
                    inputs, predicted, pred >>

Email ==
    /\ pc = "email"
    /\ email_df' = EmailDf(df)
    /\ pc' = "insights"
    /\ UNCHANGED << csv, df, category_cols, categories, kpis, selected_cat, filtered_df,
                    filtered_rate, cat_return, cat_df, top_category, lowest_category,
                    seg, cust_id, inputs, predicted, pred, error >>

\* .iloc[0] of an empty frame is an IndexError
Insights ==
    /\ pc = "insights"
    /\ IF cat_df = <<>>
        THEN /\ error' = "IndexError"
             /\ pc' = "error"
             /\ UNCHANGED << top_category, lowest_category >>
        ELSE /\ \E down \in SortValues(cat_df, FALSE) : top_category' = cat_df[down[1]]
             /\ \E up \in SortValues(cat_df, TRUE) : lowest_category' = cat_df[up[1]]
             /\ pc' = "segment"
             /\ UNCHANGED error
    /\ UNCHANGED << csv, df, category_cols, categories, kpis, selected_cat, filtered_df,
                    filtered_rate, cat_return, cat_df, email_df, seg, cust_id, inputs,
                    predicted, pred >>

Segmentation ==
    /\ pc = "segment"
    /\ df' = AssignSegment(df)
    /\ seg' = SegDf(AssignSegment(df))
    /\ pc' = "predict"
    /\ UNCHANGED << csv, category_cols, categories, kpis, selected_cat, filtered_df,
                    filtered_rate, cat_return, cat_df, email_df, top_category,
                    lowest_category, cust_id, inputs, predicted, pred, error >>

Predict ==
    /\ pc = "predict"
    /\ \E typed \in TypedIds, outcome \in ModelOutcomes :
        /\ cust_id' = typed
        /\ IF Found(df, typed)
            THEN /\ inputs' = Project(LookupRow(df, typed), FeatureCols(category_cols))
                 /\ predicted' = TRUE
                 /\ pred' = IF outcome.ok THEN Format(Times(outcome.p, 100), 10) ELSE NoText
                 /\ error' = IF outcome.ok THEN "" ELSE "ModelError"
                 /\ pc' = IF outcome.ok THEN "done" ELSE "error"
            ELSE /\ pc' = "done"
                 /\ UNCHANGED << inputs, predicted, pred, error >>
    /\ UNCHANGED << csv, df, category_cols, categories, kpis, selected_cat, filtered_df,
                    filtered_rate, cat_return, cat_df, email_df, top_category,
                    lowest_category, seg >>

\* any interaction runs the script again from the top, on the same file
Rerun ==
    /\ pc \in {"done", "error"}
    /\ pc' = "load"
    /\ df' = EmptyFrame
    /\ category_cols' = <<>>
    /\ categories' = <<>>
    /\ kpis' = NoKpis
    /\ selected_cat' = All
    /\ filtered_df' = EmptyFrame
    /\ filtered_rate' = NoText
    /\ cat_return' = <<>>
    /\ cat_df' = <<>>
    /\ email_df' = {}
    /\ top_category' = NoCategory
    /\ lowest_category' = NoCategory
    /\ seg' = <<>>
    /\ cust_id' = ""
    /\ inputs' = EmptyFrame
    /\ predicted' = FALSE
    /\ pred' = NoText
    /\ error' = ""
    /\ UNCHANGED csv

Next ==
    \/ Load
    \/ Extract
    \/ Kpis
    \/ Filter
    \/ CatReturnStep
    \/ Email
    \/ Insights
    \/ Segmentation
    \/ Predict
    \/ Rerun

Spec == Init /\ [][Next]_vars

SpecSeg == InitSeg /\ [][Next]_vars

SpecLookup == InitLookup /\ [][Next]_vars

SpecFrame == InitFrame /\ [][Next]_vars
(***************************************************************************)
(* How far the current run has come.                                       *)
(***************************************************************************)
Loaded == pc # "load"

ExtractDone == pc \notin {"load", "extract"}

\* the filter step has acted, whether it produced a view or raised
FilterDone == pc \notin {"load", "extract", "kpis", "filter"}

CatReturnDone == FilterDone /\ pc # "cat_return" /\ error # "KeyError"

EmailDone == CatReturnDone /\ pc # "email" /\ error # "ValueError"

InsightsDone == pc \in {"segment", "predict", "done"} \/ error = "ModelError"

SegmentDone == pc \in {"predict", "done"} \/ error = "ModelError"

\* the table as read from the file, before any step of the run
AsLoaded == ReadCsv(csv)

(***************************************************************************)
(* C1.  Segments.                                                          *)
(***************************************************************************)
\* C1 as stated: every row's segment follows bins closed on the left: 0 <= v < 80
\* is "Low", 80 <= v < 150 is "Medium", 150 <= v < 300 is "High", any other
\* value has no segment (so 0 is "Low", 80 is "Medium", 300 is unlabelled).
C1_SegmentsLeftClosed ==
    SegmentDone =>
        \A i \in DOMAIN df.data :
            LET v == AsLoaded.data[i][PurchaseValue].n
                label == df.data[i][SegmentCol]
            IN  /\ (0 <= v /\ v < 80) => label = StrV("Low")
                /\ (80 <= v /\ v < 150) => label = StrV("Medium")
                /\ (150 <= v /\ v < 300) => label = StrV("High")
                /\ (v < 0 \/ v >= 300) => label = NaN

\* C1 amended: the bins are closed on the right: 0 < v <= 80 is "Low",
\* 80 < v <= 150 is "Medium", 150 < v <= 300 is "High", any other value has no
\* segment (so 0 is unlabelled, 80 is "Low", 150 is "Medium", 300 is "High").
C1_SegmentsRightClosed ==
    SegmentDone =>
        \A i \in DOMAIN df.data :
            LET v == AsLoaded.data[i][PurchaseValue].n
                label == df.data[i][SegmentCol]
            IN  /\ (0 < v /\ v <= 80) => label = StrV("Low")
                /\ (80 < v /\ v <= 150) => label = StrV("Medium")
                /\ (150 < v /\ v <= 300) => label = StrV("High")
                /\ (v <= 0 \/ v > 300) => label = NaN

\* a segmented table with a row on the edge 80 and a row on the edge 0
C1_Witness ==
    /\ SegmentDone
    /\ \E i, j \in DOMAIN df.data :
        /\ df.data[i][PurchaseValue] = IntV(80) /\ df.data[i][SegmentCol] = StrV("Low")
        /\ df.data[j][PurchaseValue] = IntV(0) /\ df.data[j][SegmentCol] = NaN

(***************************************************************************)
(* C2.  A probability only for a customer ID that is in the table.         *)
(***************************************************************************)
\* C2: predict_proba is called, and a probability is written, only if the typed
\* customer ID is non-empty and is the Customer_ID text of at least one line of
\* the file.
C2_PredictionOnlyForKnownId ==
    (predicted \/ pred.shown) =>
        /\ cust_id # ""
        /\ \E i \in DOMAIN csv.lines : csv.lines[i][CustomerId] = cust_id

\* a probability is written for an ID that some lines carry and others do not
C2_Witness ==
    /\ pc = "done"
    /\ pred.shown
    /\ \E i, j \in DOMAIN csv.lines :
        csv.lines[i][CustomerId] = cust_id /\ csv.lines[j][CustomerId] # cust_id

(***************************************************************************)
(* C3.  The row and the columns the prediction is computed from.           *)
(***************************************************************************)
\* the first line of the file, in load order, that carries the typed ID
FirstMatch ==
    CHOOSE i \in DOMAIN csv.lines :
        /\ csv.lines[i][CustomerId] = cust_id
        /\ \A j \in 1..(i - 1) : csv.lines[j][CustomerId] # cust_id

\* C3: the frame handed to the classifier is exactly one row, the first line of
\* the file with the typed ID; its columns are the nine fixed features in their
\* fixed order followed by the Category_ columns in file order, and nothing else
\* (no Segment column); its values are that line's values as loaded.
C3_FeaturesOfFirstMatch ==
    predicted =>
        /\ inputs.index = << FirstMatch - 1 >>
        /\ Len(inputs.data) = 1
        /\ inputs.columns =
             << <<"Purchase_Value">>, <<"Email_Engagement">>, <<"Discount_Used">>,
                <<"frequency">>, <<"total_spent">>, <<"avg_spent">>, <<"recency_days">>,
                <<"purchase_month">>, <<"purchase_dayofweek">> >>
             \o SelectSeq(csv.header, LAMBDA c : Head(c) = "Category_")
        /\ SegmentCol \notin Range(inputs.columns)
        /\ DOMAIN inputs.data[1] = Range(inputs.columns)
        /\ \A c \in Range(inputs.columns) :
             inputs.data[1][c] = AsLoaded.data[FirstMatch][c]

\* the typed ID is on two lines that differ, under two category columns
C3_Witness ==
    /\ predicted
    /\ Len(category_cols) = 2
    /\ \E i, j \in DOMAIN csv.lines :
        /\ i < j
        /\ csv.lines[i][CustomerId] = cust_id
        /\ csv.lines[j][CustomerId] = cust_id
        /\ csv.lines[i] # csv.lines[j]

(***************************************************************************)
(* C4.  Return rate by category.                                           *)
(***************************************************************************)
\* the rows of the loaded table whose indicator column col is 1
Members(col) == {i \in DOMAIN AsLoaded.data : AsLoaded.data[i][col] = IntV(1)}

Returned(rows) == {i \in rows : AsLoaded.data[i][ReturnVisit] = IntV(1)}

\* C4: cat_return has exactly one entry per discovered category, in discovery
\* order; its value is the mean of Return_Visit over the rows whose indicator is
\* 1, and 0 (not an undefined value) for a category with no such row, so every
\* value lies in [0,1].
C4_RatePerCategory ==
    CatReturnDone =>
        /\ Len(cat_return) = Len(categories)
        /\ \A k \in DOMAIN categories :
            LET rate == cat_return[k].val
                rows == Members(category_cols[k])
            IN  /\ cat_return[k].key = categories[k]
                /\ ~IsNaN(rate)
                /\ 0 <= rate.num /\ rate.num <= rate.den
                /\ IF rows = {} THEN rate.num = 0
                   ELSE Same(rate, Frac(Cardinality(Returned(rows)), Cardinality(rows)))

(***************************************************************************)
(* C5.  Empty data.                                                        *)
(***************************************************************************)
\* C5: with no rows, no Category_ columns, an empty selection or an empty
\* category the run raises nothing and every affected result (overall rate,
\* filtered rate, per-category rate, top and bottom category) is a number, never
\* the undefined value.
C5_EmptyDataDegrades ==
    /\ error # "IndexError"
    /\ pc \notin {"load", "extract", "kpis"} => ~kpis.shown[1].nan
    /\ ~filtered_rate.nan
    /\ \A k \in DOMAIN cat_df : ~IsNaN(cat_df[k].Return_Rate)
    /\ InsightsDone => ~IsNaN(top_category.Return_Rate) /\ ~IsNaN(lowest_category.Return_Rate)

C7_ViewIsReferenceFilter ==
    FilterDone =>
        /\ error # "KeyError"
        /\ selected_cat = All =>
             /\ filtered_df = AsLoaded
             /\ filtered_rate = kpis.shown[1]
        /\ \A k \in DOMAIN categories :
             categories[k] = selected_cat =>
                filtered_df =
                    Where(AsLoaded,
                          [i \in DOMAIN AsLoaded.data |-> i \in Members(category_cols[k])])

(***************************************************************************)
(* C8.  Engagement groups.                                                 *)
(***************************************************************************)
RECURSIVE SumOfSizes(_)
SumOfSizes(groups) ==
    IF groups = {} THEN 0
    ELSE LET g == CHOOSE x \in groups : TRUE
         IN  Cardinality(g.rows) + SumOfSizes(groups \ {g})

\* C8: every row of the table, a row with a missing Email_Engagement included,
\* is in exactly one engagement group, so the groups' row counts add up to the
\* number of rows.
C8_GroupsCoverAllRows ==
    EmailDone =>
        /\ \A i \in DOMAIN df.data :
             Cardinality({e \in email_df :
                            e.Email_Engagement = df.data[i][EmailEngagement]}) = 1
        /\ SumOfSizes(GroupBy(df, EmailEngagement)) = Len(df.data)

(***************************************************************************)
(* C9.  Top and bottom category.                                           *)
(***************************************************************************)
\* the rate returnRateByCategory reports for entry k: 0 for an empty category
ReportedRate(k) ==
    IF IsNaN(cat_df[k].Return_Rate) THEN Frac(0, 1) ELSE cat_df[k].Return_Rate

\* C9: top_category is the category of maximum rate and lowest_category the
\* category of minimum rate, and among categories of equal rate the first in
\* discovery order.
C9_FirstOfTheExtremes ==
    InsightsDone =>
        LET top == CHOOSE k \in DOMAIN cat_df :
                      /\ \A j \in DOMAIN cat_df : ~Less(ReportedRate(k), ReportedRate(j))
                      /\ \A j \in 1..(k - 1) : Less(ReportedRate(j), ReportedRate(k))
            low == CHOOSE k \in DOMAIN cat_df :
                      /\ \A j \in DOMAIN cat_df : ~Less(ReportedRate(j), ReportedRate(k))
                      /\ \A j \in 1..(k - 1) : Less(ReportedRate(k), ReportedRate(j))
        IN  /\ top_category.Category = cat_df[top].Category
            /\ lowest_category.Category = cat_df[low].Category

(***************************************************************************)
(* C10.  Category names and their columns.                                 *)
(***************************************************************************)
\* C10: the names derived from the Category_ columns are pairwise distinct, and
\* for each name n the column "Category_" + n exists and is the column n was
\* derived from.
C10_OneColumnPerName ==
    ExtractDone =>
        /\ \A i, j \in DOMAIN categories : i # j => categories[i] # categories[j]
        /\ \A i \in DOMAIN categories :
             /\ HasColumn(df, ColName(categories[i]))
             /\ ColName(categories[i]) = category_cols[i]

=============================================================================
